---- MODULE Spec2Model ----
(***************************************************************************)
(* A model of InvoiceGenerator (src/invoice.py): two tables loaded at      *)
(* construction, the client / work lookups, the totals, the invoice        *)
(* assembly and the three renderers.                                       *)
(*                                                                         *)
(* Cell values are tagged: an int64 cell, a float64 cell (thousandths), a  *)
(* str cell (a sequence of characters) or NaN.  Money is fixed point:      *)
(* amounts in thousandths, the stored (rounded) invoice fields in cents,   *)
(* the tax rate in hundredths (21 is 0.21).                                *)
(***************************************************************************)
EXTENDS Integers, Sequences, FiniteSets, TLC

VARIABLES clients_df, works_df, tax_rate, built, result, last, stdout

vars == <<clients_df, works_df, tax_rate, built, result, last, stdout>>

(* ------------------------------ bounds --------------------------------- *)
MaxRows == 2

(* ------------------------------ values --------------------------------- *)
IntV(n) == [k |-> "int", n |-> n, s |-> <<>>]
FloatV(m) == [k |-> "float", n |-> m, s |-> <<>>]
StrV(s) == [k |-> "str", n |-> 0, s |-> s]
NaN == [k |-> "nan", n |-> 0, s |-> <<>>]

\* pd.notna(v)
NotNa(v) == v.k # "nan"

DigitChar(d) == <<"0", "1", "2", "3", "4", "5", "6", "7", "8", "9">>[d + 1]

RECURSIVE Digits(_)
Digits(n) == IF n < 10 THEN <<DigitChar(n)>>
             ELSE Digits(n \div 10) \o <<DigitChar(n % 10)>>

\* the digits of n, zero-padded on the left to w characters
RECURSIVE Pad(_, _)
Pad(n, w) == IF w <= 1 THEN Digits(n)
             ELSE IF Len(Digits(n)) >= w THEN Digits(n)
             ELSE <<"0">> \o Pad(n, w - 1)

\* the fractional digits of a float given in thousandths, as repr prints them
FracDigits(f) == IF f % 100 = 0 THEN <<DigitChar(f \div 100)>>
                 ELSE IF f % 10 = 0 THEN <<DigitChar(f \div 100), DigitChar((f \div 10) % 10)>>
                 ELSE <<DigitChar(f \div 100), DigitChar((f \div 10) % 10), DigitChar(f % 10)>>

\* str(v), as astype(str) and the f-strings apply it
Str(v) == CASE v.k = "int" -> Digits(v.n)
            [] v.k = "float" -> Digits(v.n \div 1000) \o <<".">> \o FracDigits(v.n % 1000)
            [] v.k = "str" -> v.s
            [] OTHER -> <<"n", "a", "n">>

\* the value of a numeric cell in thousandths
Milli(v) == IF v.k = "int" THEN v.n * 1000 ELSE v.n

IsNum(v) == v.k \in {"int", "float"}

\* series == scalar, elementwise: numbers compare by value, a str only with a str,
\* NaN with nothing
PyEq(a, b) == \/ IsNum(a) /\ IsNum(b) /\ Milli(a) = Milli(b)
              \/ a.k = "str" /\ b.k = "str" /\ a.s = b.s

(* ------------------------------ tables --------------------------------- *)
\* pd.DataFrame(): no columns, no rows
EmptyFrame == [cols |-> {}, rows |-> <<>>]

NoCol == "<none>"

\* for col in candidates: if col in columns: ...; break
RECURSIVE FirstColumn(_, _)
FirstColumn(cands, cols) ==
    IF cands = <<>> THEN NoCol
    ELSE IF Head(cands) \in cols THEN Head(cands)
    ELSE FirstColumn(Tail(cands), cols)

(* --------------------------- get_client_data --------------------------- *)
ClientIdColumns == <<"id", "client_id", "ID", "Client_ID", "id_number", "ID_Number">>

\* An optional value is a sequence of at most one element: <<>> is None.
None == <<>>
Some(x) == <<x>>

\* clients_df[clients_df[col].astype(str) == str(client_id)]: the rows kept, in source order
ClientMatches(df, col, client_id) ==
    LET Hit(r) == Str(r[col]) = Str(client_id) IN SelectSeq(df.rows, Hit)

get_client_data(df, client_id) ==
    LET col == FirstColumn(ClientIdColumns, df.cols) IN
    IF col = NoCol THEN None
    ELSE LET client_row == ClientMatches(df, col, client_id) IN
         IF client_row = <<>> THEN None ELSE Some(client_row[1])

(* --------------------------- get_client_works -------------------------- *)
WorkIdColumns == <<"client_id", "Client_ID", "id", "ID", "client", "Client">>

\* works_df[works_df[col] == client_id].copy()
WorkMatches(df, col, client_id) ==
    LET Hit(r) == PyEq(r[col], client_id) IN SelectSeq(df.rows, Hit)

\* get_client_works returning the whole table when it finds no reference column
get_client_works_WholeTable(df, client_id) ==
    LET col == FirstColumn(WorkIdColumns, df.cols) IN
    IF col = NoCol THEN df
    ELSE [cols |-> df.cols, rows |-> WorkMatches(df, col, client_id)]

get_client_works(df, client_id) ==
    LET col == FirstColumn(WorkIdColumns, df.cols) IN
    IF col = NoCol THEN EmptyFrame
    ELSE [cols |-> df.cols, rows |-> WorkMatches(df, col, client_id)]

(* ------------------------ calculate_invoice_totals --------------------- *)
AmountColumns == <<"amount", "import", "price", "cost", "value", "total", "Amount", "Import", "Price">>

\* round(n / d, ...) to the nearest integer, ties to even (n >= 0, d > 0).  On binary
\* floats an exact decimal tie may fall either way; the amounts and rates drawn below
\* produce no tie.
RoundDiv(n, d) ==
    LET q == n \div d
        r == n % d
    IN IF 2 * r < d THEN q
       ELSE IF 2 * r > d THEN q + 1
       ELSE IF q % 2 = 0 THEN q ELSE q + 1

\* Series.sum() of a numeric column, in thousandths: NaN cells are skipped
RECURSIVE SumColumn(_, _)
SumColumn(rows, col) ==
    IF rows = <<>> THEN 0
    ELSE (IF NotNa(Head(rows)[col]) THEN Milli(Head(rows)[col]) ELSE 0)
         + SumColumn(Tail(rows), col)

\* a str cell in the summed column: the sum is a str (or the sum itself raises), and
\* subtotal * tax_rate / round(...) raises TypeError
HasStrCell(rows, col) == \E i \in 1..Len(rows) : rows[i][col].k = "str"

Totals(raised, subtotal, tax, total) ==
    [raised |-> raised, subtotal |-> subtotal, tax |-> tax, total |-> total]

\* the last candidate present among cols: the loop without its break
RECURSIVE LastColumn(_, _)
LastColumn(cands, cols) ==
    IF cands = <<>> THEN NoCol
    ELSE IF cands[Len(cands)] \in cols THEN cands[Len(cands)]
    ELSE LastColumn(SubSeq(cands, 1, Len(cands) - 1), cols)

\* calculate_invoice_totals with the column loop's break left out
calculate_invoice_totals_NoBreak(works, rate) ==
    LET amount_col == LastColumn(AmountColumns, works.cols) IN
    IF amount_col = NoCol THEN Totals(FALSE, 0, 0, 0)
    ELSE IF HasStrCell(works.rows, amount_col) THEN Totals(TRUE, 0, 0, 0)
    ELSE LET subtotal == SumColumn(works.rows, amount_col)
             tax_amount == subtotal * rate
             total == subtotal * 100 + tax_amount
         IN Totals(FALSE, RoundDiv(subtotal, 10), RoundDiv(tax_amount, 1000),
                   RoundDiv(total, 1000))

\* subtotal, tax and total in cents; rate in hundredths
calculate_invoice_totals(works, rate) ==
    LET amount_col == FirstColumn(AmountColumns, works.cols) IN
    IF amount_col = NoCol THEN Totals(FALSE, 0, 0, 0)
    ELSE IF HasStrCell(works.rows, amount_col) THEN Totals(TRUE, 0, 0, 0)
    ELSE LET subtotal == SumColumn(works.rows, amount_col)    \* thousandths
             tax_amount == subtotal * rate                    \* 1e-5
             total == subtotal * 100 + tax_amount             \* 1e-5
         IN Totals(FALSE, RoundDiv(subtotal, 10), RoundDiv(tax_amount, 1000),
                   RoundDiv(total, 1000))

(* ---------------------------- generate_invoice ------------------------- *)
\* strftime('%Y%m%d') and strftime('%Y-%m-%d') of a date [y, m, d]
Compact(now) == Pad(now.y, 4) \o Pad(now.m, 2) \o Pad(now.d, 2)
Iso(now) == Pad(now.y, 4) \o <<"-">> \o Pad(now.m, 2) \o <<"-">> \o Pad(now.d, 2)

\* f"INV-{now:%Y%m%d}-{client_id}"
DefaultNumber(now, client_id) == <<"I", "N", "V", "-">> \o Compact(now) \o <<"-">> \o Str(client_id)

Returned(v) == [status |-> "returned", value |-> v]
Raised == [status |-> "raised", value |-> None]

\* the outcome of generate_invoice(client_id, invoice_number, invoice_date) at clock now:
\* it returns None, returns an invoice, or raises
generate_invoice(cdf, wdf, rate, client_id, invoice_number, invoice_date, now) ==
    LET client_data == get_client_data(cdf, client_id) IN
    IF client_data = None THEN Returned(None)
    ELSE LET client_works == get_client_works(wdf, client_id)
             totals == calculate_invoice_totals(client_works, rate)
         IN IF totals.raised THEN Raised
            ELSE Returned(Some(
                   [invoice_number |-> IF invoice_number = None
                                       THEN DefaultNumber(now, client_id)
                                       ELSE invoice_number[1],
                    invoice_date |-> IF invoice_date = None THEN Iso(now)
                                     ELSE invoice_date[1],
                    client_data |-> client_data[1],
                    works |-> client_works.rows,
                    subtotal |-> totals.subtotal,
                    tax_rate |-> rate * 100,
                    tax_amount |-> totals.tax,
                    total_amount |-> totals.total]))

(* ------------------------------ renderers ------------------------------ *)
\* the resolver loop with its break left out: the last candidate present wins
RECURSIVE ResolveOpt_NoBreak(_, _)
ResolveOpt_NoBreak(row, cands) ==
    IF cands = <<>> THEN <<>>
    ELSE LET c == cands[Len(cands)] IN
         IF c \in DOMAIN row /\ NotNa(row[c]) THEN <<row[c]>>
         ELSE ResolveOpt_NoBreak(row, SubSeq(cands, 1, Len(cands) - 1))

\* for col in candidates: if col in row and pd.notna(row[col]): ...; break
RECURSIVE ResolveOpt(_, _)
ResolveOpt(row, cands) ==
    IF cands = <<>> THEN None
    ELSE IF Head(cands) \in DOMAIN row /\ NotNa(row[Head(cands)]) THEN Some(row[Head(cands)])
    ELSE ResolveOpt(row, Tail(cands))

Resolve(row, cands, default) ==
    LET v == ResolveOpt(row, cands) IN IF v = None THEN default ELSE v[1]

NameColumns == <<"name", "company_name", "client_name", "Name", "Company_Name", "Client_Name">>
AddressColumns == <<"address", "Address", "street", "Street">>
ZipColumns == <<"zip_code", "zip", "postal_code", "Zip_Code", "ZIP", "Postal_Code">>
DescColumns == <<"description", "concept", "service", "Description", "Concept", "Service">>
DateColumns == <<"date", "Date", "work_date", "Work_Date">>

DescWidth == 28
DateWidth == 10

\* s[:n]
Take(s, n) == IF Len(s) <= n THEN s ELSE SubSeq(s, 1, n)

\* one printed line: its kind, two text fields and an amount in cents
Line(t, a, b, c) == [t |-> t, a |-> a, b |-> b, c |-> c]
Rule == Line("rule", <<>>, <<>>, 0)

\* the amount a renderer shows for one work item; a str amount makes the
\* format specification .2f raise ValueError
WorkAmount(work) == Resolve(work, AmountColumns, IntV(0))

\* f"{amount:.2f}", in cents
Fmt2(v) == RoundDiv(Milli(v), 10)

\* the lines print_invoice emits before the services table
HeadLines(invoice) ==
    LET client == invoice.client_data
        address == ResolveOpt(client, AddressColumns)
        zip == ResolveOpt(client, ZipColumns)
    IN <<Rule, Line("title", invoice.invoice_number, <<>>, 0), Rule,
         Line("date", invoice.invoice_date, <<>>, 0),
         Line("bill_to", Str(Resolve(client, NameColumns, StrV(<<"Unknown Client">>))), <<>>, 0)>>
       \o (IF address = None THEN <<>> ELSE <<Line("address", Str(address[1]), <<>>, 0)>>)
       \o (IF zip = None THEN <<>> ELSE <<Line("zip", Str(zip[1]), <<>>, 0)>>)
       \o <<Line("services", <<>>, <<>>, 0), Rule>>

\* one services row of print_invoice
WorkLine(work) ==
    Line("row",
         Take(Str(Resolve(work, DescColumns, StrV(<<"Service">>))), DescWidth),
         Take(Str(Resolve(work, DateColumns, StrV(<<"N/A">>))), DateWidth),
         Fmt2(WorkAmount(work)))

\* the loop over invoice['works']: the rows printed, and whether a row raised
RECURSIVE WorkLines(_)
WorkLines(works) ==
    IF works = <<>> THEN [lines |-> <<>>, raised |-> FALSE]
    ELSE IF ~IsNum(WorkAmount(Head(works))) THEN [lines |-> <<>>, raised |-> TRUE]
    ELSE LET rest == WorkLines(Tail(works)) IN
         [lines |-> <<WorkLine(Head(works))>> \o rest.lines, raised |-> rest.raised]

\* the totals block
TotalLines(invoice) ==
    <<Rule, Line("subtotal", <<>>, <<>>, invoice.subtotal),
      Line("tax", Str(FloatV(invoice.tax_rate * 10)), <<>>, invoice.tax_amount),
      Rule, Line("total", <<>>, <<>>, invoice.total_amount), Rule>>

\* print_invoice(invoice): the lines written to sys.stdout, and whether it raised
print_invoice(invoice) ==
    IF invoice = None THEN [lines |-> <<Line("no_invoice", <<>>, <<>>, 0)>>, raised |-> FALSE]
    ELSE LET body == WorkLines(invoice[1].works) IN
         IF body.raised
         THEN [lines |-> HeadLines(invoice[1]) \o body.lines, raised |-> TRUE]
         ELSE [lines |-> HeadLines(invoice[1]) \o body.lines \o TotalLines(invoice[1]),
               raised |-> FALSE]

\* f"invoice_{invoice['invoice_number']}.txt"
TxtName(invoice) == <<"invoice_">> \o invoice.invoice_number \o <<".txt">>
PdfName(invoice) == <<"invoice_">> \o invoice.invoice_number \o <<".pdf">>

\* the state of one path: None when absent, else Some(its lines)
Effect(name, before, after) == [name |-> name, before |-> before, after |-> after]
NoEffect == Effect(<<>>, None, None)

\* save_invoice_to_file whose except branch does not put sys.stdout back: after a
\* rendering error sys.stdout is still the (closed) file
save_invoice_to_file_NoRestore(invoice, opens, before, out0) ==
    IF invoice = None
    THEN [file |-> NoEffect, out |-> <<Line("no_invoice", <<>>, <<>>, 0)>>, stdout |-> out0]
    ELSE LET filename == TxtName(invoice[1])
             run == print_invoice(invoice)
         IN IF ~opens
            THEN [file |-> Effect(filename, before, before),
                  out |-> <<Line("error", filename, <<>>, 0)>>, stdout |-> out0]
            ELSE IF run.raised
            THEN [file |-> Effect(filename, before, Some(run.lines)),
                  out |-> <<Line("error", filename, <<>>, 0)>>, stdout |-> "file"]
            ELSE [file |-> Effect(filename, before, Some(run.lines)),
                  out |-> <<Line("saved", filename, <<>>, 0)>>, stdout |-> out0]

\* save_invoice_to_file(invoice): opens may say that open() raises OSError; before is
\* the state of the target path when the call starts.  It yields the path's state
\* after the call, what reached the display, and sys.stdout after the call.
save_invoice_to_file(invoice, opens, before, out0) ==
    IF invoice = None
    THEN [file |-> NoEffect, out |-> <<Line("no_invoice", <<>>, <<>>, 0)>>, stdout |-> out0]
    ELSE LET filename == TxtName(invoice[1])
             run == print_invoice(invoice)
         IN IF ~opens
            THEN [file |-> Effect(filename, before, before),
                  out |-> <<Line("error", filename, <<>>, 0)>>, stdout |-> out0]
            ELSE IF run.raised
            THEN [file |-> Effect(filename, before, Some(run.lines)),
                  out |-> <<Line("error", filename, <<>>, 0)>>, stdout |-> out0]
            ELSE [file |-> Effect(filename, before, Some(run.lines)),
                  out |-> <<Line("saved", filename, <<>>, 0)>>, stdout |-> out0]

\* the table_data rows save_invoice_to_pdf builds for the work items
PdfRow(work) ==
    Line("row", Str(Resolve(work, DescColumns, StrV(<<"Service">>))),
         Take(Str(Resolve(work, DateColumns, StrV(<<"N/A">>))), DateWidth),
         Fmt2(WorkAmount(work)))

RECURSIVE PdfRows(_)
PdfRows(works) ==
    IF works = <<>> THEN [lines |-> <<>>, raised |-> FALSE]
    ELSE IF ~IsNum(WorkAmount(Head(works))) THEN [lines |-> <<>>, raised |-> TRUE]
    ELSE LET rest == PdfRows(Tail(works)) IN
         [lines |-> <<PdfRow(Head(works))>> \o rest.lines, raised |-> rest.raised]

\* save_invoice_to_pdf(invoice): builds may say that doc.build raises; every
\* exception is caught, and the document is written only by doc.build (the path's
\* earlier state is not tracked)
save_invoice_to_pdf(invoice, builds) ==
    IF invoice = None
    THEN [file |-> NoEffect, out |-> <<Line("no_invoice", <<>>, <<>>, 0)>>]
    ELSE LET filename == PdfName(invoice[1])
             body == PdfRows(invoice[1].works)
         IN IF body.raised \/ ~builds
            THEN [file |-> Effect(filename, None, None),
                  out |-> <<Line("error", filename, <<>>, 0)>>]
            ELSE [file |-> Effect(filename, None,
                                  Some(<<Line("title", invoice[1].invoice_number, <<>>, 0)>>
                                       \o body.lines \o TotalLines(invoice[1]))),
                  out |-> <<Line("saved", filename, <<>>, 0)>>]

(* ------------------------ the tables read_csv yields ------------------- *)
\* A column read from a CSV file has one dtype: int64 (all cells integers), float64
\* (numbers, NaN for the empty cells) or object (str cells, NaN for the empty cells;
\* at least one cell is not a number, or the column would be numeric).
IntColumn(n) == [1..n -> {IntV(1), IntV(2)}]
ObjColumn(n) == {c \in [1..n -> {StrV(<<"1">>), StrV(<<"A">>)}] : \E i \in 1..n : c[i] = StrV(<<"A">>)}
FloatIdColumn(n) == {c \in [1..n -> {FloatV(1000), NaN}] : \E i \in 1..n : c[i] = NaN}
IdColumn(n) == IntColumn(n) \cup ObjColumn(n) \cup FloatIdColumn(n)

NumAmountColumn(n) == [1..n -> {FloatV(24), FloatV(50000), NaN}]
StrAmountColumn(n) == {c \in [1..n -> {StrV(<<"abc">>), NaN}] : \E i \in 1..n : c[i] # NaN}
AmountColumn(n) == NumAmountColumn(n) \cup StrAmountColumn(n)

\* a text column whose i-th cell is the tag followed by i
TextColumn(tag, n) == [i \in 1..n |-> StrV(<<tag, DigitChar(i)>>)]
ConstColumn(v, n) == [i \in 1..n |-> v]

\* the frame with n rows whose column c holds column[c]
Frame(n, column) ==
    [cols |-> DOMAIN column, rows |-> [i \in 1..n |-> [c \in DOMAIN column |-> column[c][i]]]]

ClientTables ==
    {EmptyFrame}
    \cup {Frame(n, [name |-> TextColumn("n", n)]) : n \in 0..MaxRows}
    \cup UNION {{Frame(n, [id |-> c, name |-> TextColumn("n", n)]) : c \in IdColumn(n)}
                : n \in 0..MaxRows}
    \cup UNION {{Frame(n, [client_id |-> ConstColumn(IntV(1), n), id |-> c,
                           name |-> TextColumn("n", n)])
                 : c \in IntColumn(n)} : n \in 1..MaxRows}

\* works whose reference column is all 1 and whose amount column varies
AmountWorks ==
    UNION {{Frame(n, [client_id |-> ConstColumn(IntV(1), n), amount |-> c])
            : c \in AmountColumn(n)} : n \in 1..MaxRows}

\* No table below has a date-like column, so load_works_data's pd.to_datetime
\* conversion never applies.
WorkTables ==
    {EmptyFrame}
    \cup UNION {{Frame(n, [client_id |-> c[1], amount |-> c[2]])
                 : c \in IntColumn(n) \X AmountColumn(n)} : n \in 0..MaxRows}
    \cup UNION {{Frame(n, [client_id |-> c, amount |-> ConstColumn(FloatV(50000), n)])
                 : c \in ObjColumn(n) \cup FloatIdColumn(n)} : n \in 1..MaxRows}
    \cup UNION {{Frame(n, [client_id |-> ConstColumn(IntV(1), n), amount |-> c,
                           Amount |-> ConstColumn(FloatV(100000), n)])
                 : c \in NumAmountColumn(n)} : n \in 1..MaxRows}
    \cup UNION {{Frame(n, [client_id |-> ConstColumn(IntV(1), n), amount |-> c[1],
                           price |-> ConstColumn(c[2], n)])
                 : c \in AmountColumn(n) \X {FloatV(100000), StrV(<<"abc">>)}}
                : n \in 1..MaxRows}
    \cup UNION {{Frame(n, [id |-> ConstColumn(IntV(1), n), client_id |-> c,
                           amount |-> ConstColumn(FloatV(50000), n)])
                 : c \in IntColumn(n)} : n \in 1..MaxRows}
    \cup {Frame(n, [amount |-> ConstColumn(FloatV(50000), n)]) : n \in 1..MaxRows}
    \cup UNION {{Frame(n, [client_id |-> c, description |-> TextColumn("d", n)])
                 : c \in IntColumn(n)} : n \in 1..MaxRows}

\* fixed tables, each combined with every table of the other kind
CoreClients ==
    {Frame(2, [id |-> <<IntV(1), IntV(2)>>, name |-> TextColumn("n", 2)])}

CoreWorks ==
    {Frame(2, [client_id |-> <<IntV(1), IntV(2)>>, amount |-> <<FloatV(100000), FloatV(50000)>>]),
     Frame(1, [client_id |-> <<IntV(1)>>, amount |-> <<StrV(<<"abc">>)>>])}

\* tax_rate=0.21, the constructor's default, in hundredths
DefaultRate == 21
Rates == {DefaultRate, 10}

QueryIds == {IntV(1), IntV(2), StrV(<<"1">>), StrV(<<"A">>)}

Days == {[y |-> 2024, m |-> 1, d |-> 15]}

\* (invoice_number, invoice_date): both defaulted, or both given
GivenArgs == {<<None, None>>,
              <<Some(<<"F-7">>), Some(<<"2024-01-31">>)>>}

\* the state a path may be in when a save starts
OldFile == Some(<<Line("old", <<>>, <<>>, 0)>>)
PathStates == {None, OldFile}

(* ------------------------------- state --------------------------------- *)
Outcome(op, status, args, out, file) ==
    [op |-> op, status |-> status, args |-> args, out |-> out, file |-> file]

\* __init__: both tables loaded, nothing generated yet
Init ==
    /\ \/ clients_df \in ClientTables /\ works_df \in CoreWorks /\ tax_rate = DefaultRate
       \/ clients_df \in CoreClients /\ works_df \in WorkTables /\ tax_rate = DefaultRate
       \/ clients_df \in CoreClients /\ works_df \in AmountWorks /\ tax_rate \in Rates
    /\ built = [clients |-> clients_df, works |-> works_df, rate |-> tax_rate]
    /\ result = [status |-> "none", value |-> None]
    /\ last = Outcome("init", "returned", <<>>, <<>>, NoEffect)
    /\ stdout = "display"

\* the invoice a caller holds: what the last generate_invoice returned
Held == IF result.status = "returned" THEN result.value ELSE None

\* the diagnostics generate_invoice prints
GenerateOut(res, client_id) ==
    IF res.status = "returned" /\ res.value = None THEN <<Line("error", Str(client_id), <<>>, 0)>>
    ELSE IF get_client_works(works_df, client_id).rows = <<>>
    THEN <<Line("warning", Str(client_id), <<>>, 0)>>
    ELSE <<>>

\* generate_invoice filtering self.works_df in place instead of taking a copy
GenerateInvoice_InPlace(client_id, given, now) ==
    LET res == generate_invoice(clients_df, works_df, tax_rate, client_id, given[1], given[2], now)
    IN /\ result' = res
       /\ last' = Outcome("generate_invoice", res.status, <<client_id, given, now>>,
                          GenerateOut(res, client_id), NoEffect)
       /\ works_df' = IF res.status = "returned" /\ res.value = None THEN works_df
                      ELSE get_client_works(works_df, client_id)
       /\ UNCHANGED <<clients_df, tax_rate, built, stdout>>

GenerateInvoice(client_id, given, now) ==
    LET res == generate_invoice(clients_df, works_df, tax_rate, client_id, given[1], given[2], now)
    IN /\ result' = res
       /\ last' = Outcome("generate_invoice", res.status, <<client_id, given, now>>,
                          GenerateOut(res, client_id), NoEffect)
       /\ UNCHANGED <<clients_df, works_df, tax_rate, built, stdout>>

PrintInvoice ==
    LET run == print_invoice(Held)
    IN /\ last' = IF stdout = "display"
                  THEN Outcome("print_invoice", IF run.raised THEN "raised" ELSE "returned",
                               <<>>, run.lines, NoEffect)
                  ELSE Outcome("print_invoice", "raised", <<>>, <<>>, NoEffect)
       /\ UNCHANGED <<clients_df, works_df, tax_rate, built, result, stdout>>

SaveInvoiceToFile(opens, before) ==
    LET run == save_invoice_to_file(Held, opens, before, stdout)
    IN /\ last' = Outcome("save_invoice_to_file", "returned", <<>>, run.out, run.file)
       /\ stdout' = run.stdout
       /\ UNCHANGED <<clients_df, works_df, tax_rate, built, result>>

SaveInvoiceToPdf(builds) ==
    LET run == save_invoice_to_pdf(Held, builds)
    IN /\ last' = Outcome("save_invoice_to_pdf", "returned", <<>>, run.out, run.file)
       /\ UNCHANGED <<clients_df, works_df, tax_rate, built, result, stdout>>

Next ==
    \/ \E client_id \in QueryIds, given \in GivenArgs, now \in Days :
          GenerateInvoice(client_id, given, now)
    \/ PrintInvoice
    \/ \E opens \in BOOLEAN, before \in PathStates : SaveInvoiceToFile(opens, before)
    \/ \E builds \in BOOLEAN : SaveInvoiceToPdf(builds)

Spec == Init /\ [][Next]_vars

(* ------------------------------- claims -------------------------------- *)
\* the first name of a candidate list, in list order, that is among cols
LeastCandidate(cands, cols) ==
    LET I == {i \in 1..Len(cands) : cands[i] \in cols} IN
    IF I = {} THEN NoCol ELSE cands[CHOOSE i \in I : \A j \in I : i <= j]

Least(I) == CHOOSE i \in I : \A j \in I : i <= j

\* the indices of the rows of df whose cell in column col satisfies P
RowsWhere(df, col, P(_)) ==
    IF col = NoCol THEN {} ELSE {i \in 1..Len(df.rows) : P(df.rows[i][col])}

\* the last call was generate_invoice(client_id, ...)
Generated == last.op = "generate_invoice"
QueryId == last.args[1]

\* the clients rows whose identifier prints like the query id
ClientHits ==
    LET SameText(v) == Str(v) = Str(QueryId) IN
    RowsWhere(clients_df, LeastCandidate(ClientIdColumns, clients_df.cols), SameText)

GotInvoice == result.status = "returned" /\ result.value # None
TheInvoice == result.value[1]

\* C1: whenever a clients row's identifier (first identifier column present) has the
\* string representation of the query id, generate_invoice returns an invoice whose
\* client_data is the first such row in source order.
C1_ReturnsFirstMatchingClient ==
    (Generated /\ ClientHits # {}) =>
        /\ GotInvoice
        /\ TheInvoice.client_data = clients_df.rows[Least(ClientHits)]

\* C2: generate_invoice returns None exactly when no clients row matches the query id,
\* and returns an invoice in every other case, whatever the works table holds.
C2_NoneIffClientNotLocated ==
    Generated =>
        /\ ClientHits = {} => result = Returned(None)
        /\ ClientHits # {} => GotInvoice

\* C3: on the stored fields of every returned invoice,
\* tax_amount = round(subtotal * tax_rate, 2) and total_amount = round(subtotal + tax_amount, 2).
C3_StoredFieldsConsistent ==
    (Generated /\ GotInvoice) =>
        /\ TheInvoice.tax_amount = RoundDiv(TheInvoice.subtotal * tax_rate, 100)
        /\ TheInvoice.total_amount = TheInvoice.subtotal + TheInvoice.tax_amount

\* the works rows whose client reference prints like the query id, in source order
WorksBelonging ==
    LET col == LeastCandidate(WorkIdColumns, works_df.cols)
        SameText(r) == Str(r[col]) = Str(QueryId)
    IN IF col = NoCol THEN <<>> ELSE SelectSeq(works_df.rows, SameText)

\* C4: when a client is located, the invoice's works are exactly the works rows whose
\* client reference has the string representation of the matched identifier, in
\* source order.
C4_WorksAreAllBelongingRows ==
    (Generated /\ GotInvoice) => TheInvoice.works = WorksBelonging

\* the sum, in thousandths, of the cells of column col over items, a NaN cell counting 0
RECURSIVE AmountSum(_, _, _)
AmountSum(items, col, n) ==
    IF n = 0 THEN 0
    ELSE AmountSum(items, col, n - 1)
         + (IF items[n][col].k = "nan" THEN 0 ELSE Milli(items[n][col]))

\* the one amount column of the item table
TableAmountColumn == LeastCandidate(AmountColumns, works_df.cols)

\* C5 (an invoice exists only when no summed cell is a str; see C7): the invoice
\* subtotal is the sum, rounded to 2 decimals, of the line items'
\* amounts in the amount column resolved once for the table (first candidate among
\* the table's columns); a row without a value there contributes 0.
C5_SubtotalIsRoundedSum ==
    (Generated /\ GotInvoice /\ TableAmountColumn # NoCol) =>
        TheInvoice.subtotal
            = RoundDiv(AmountSum(TheInvoice.works, TableAmountColumn, Len(TheInvoice.works)), 10)

\* C5's case: two line items, one of them without an amount, in a table that has a
\* second amount-like column
C5_Witness ==
    /\ Generated /\ GotInvoice
    /\ {"amount", "price"} \subseteq works_df.cols
    /\ Len(TheInvoice.works) = 2
    /\ \E i \in 1..2 : TheInvoice.works[i]["amount"] = NaN
    /\ TheInvoice.subtotal > 0

\* the works rows get_client_works selects: strict equality with the query id
WorkHits ==
    LET Equal(v) == PyEq(v, QueryId) IN
    RowsWhere(works_df, LeastCandidate(WorkIdColumns, works_df.cols), Equal)

ZeroTotals ==
    TheInvoice.subtotal = 0 /\ TheInvoice.tax_amount = 0 /\ TheInvoice.total_amount = 0

\* C6: a located client with no matching work item (no row selected by the strict
\* comparison with the query id, no reference column, or an empty works table) still
\* gets an invoice, with no line items and zero
\* totals; the totals are zero too when the works table has no amount-like column.
C6_NoWorksStillInvoices ==
    (Generated /\ ClientHits # {}) =>
        /\ WorkHits = {} => GotInvoice /\ TheInvoice.works = <<>> /\ ZeroTotals
        /\ TableAmountColumn = NoCol => GotInvoice /\ ZeroTotals

\* C6's case: the works table has rows but no reference column, and an invoice came back
C6_Witness ==
    /\ Generated /\ ClientHits # {} /\ GotInvoice
    /\ works_df.rows # <<>>
    /\ LeastCandidate(WorkIdColumns, works_df.cols) = NoCol
    /\ TheInvoice.works = <<>>

\* C7: no public operation ends by raising.
C7_NothingRaises == last.status # "raised"

\* the value of the first candidate, in list order, present in the row and not NaN
FirstPresent(row, cands) ==
    LET I == {i \in 1..Len(cands) : cands[i] \in DOMAIN row /\ row[cands[i]] # NaN} IN
    IF I = {} THEN None ELSE Some(row[cands[Least(I)]])

CandidateLists ==
    {ClientIdColumns, WorkIdColumns, AmountColumns, NameColumns, AddressColumns, ZipColumns,
     DescColumns, DateColumns}

AllRows == {clients_df.rows[i] : i \in 1..Len(clients_df.rows)}
           \cup {works_df.rows[i] : i \in 1..Len(works_df.rows)}

BothAmounts(work) ==
    /\ {"amount", "Amount"} \subseteq DOMAIN work
    /\ work["amount"] # NaN /\ work["Amount"] # NaN

\* C8: the resolver returns the value of the first candidate, in list order, that is
\* present in the row and not null; for line items carrying both 'amount' and 'Amount'
\* the text renderer, the PDF renderer and the totals all use 'amount'.
C8_ResolutionRespectsOrder ==
    /\ \A row \in AllRows, cands \in CandidateLists :
          ResolveOpt(row, cands) = FirstPresent(row, cands)
    /\ (Generated /\ GotInvoice) =>
          LET works == TheInvoice.works IN
          (\A i \in 1..Len(works) : BothAmounts(works[i])) =>
             /\ \A i \in 1..Len(works) :
                   /\ WorkLines(works).lines[i].c = Fmt2(works[i]["amount"])
                   /\ PdfRows(works).lines[i].c = Fmt2(works[i]["amount"])
             /\ TheInvoice.subtotal = RoundDiv(AmountSum(works, "amount", Len(works)), 10)

\* C8's case: an invoice with a line item whose 'amount' and 'Amount' both hold a
\* value, and not the same one
C8_Witness ==
    /\ Generated /\ GotInvoice
    /\ TheInvoice.works # <<>>
    /\ \A i \in 1..Len(TheInvoice.works) :
          BothAmounts(TheInvoice.works[i])
          /\ TheInvoice.works[i]["amount"] # TheInvoice.works[i]["Amount"]

\* C9: a save_invoice_to_file that fails leaves no partial file: the target path is
\* as it was before the call (absent or unchanged), or holds the complete text.
C9_NoPartialFile ==
    (last.op = "save_invoice_to_file" /\ last.out # <<>> /\ last.out[1].t = "error") =>
        last.file.after = last.file.before

\* the tables are as __init__ loaded them
TablesAsBuilt ==
    clients_df = built.clients /\ works_df = built.works /\ tax_rate = built.rate

Renderers == {"print_invoice", "save_invoice_to_file", "save_invoice_to_pdf"}

\* C10: no call changes clients_df, works_df or tax_rate, the renderers leave the
\* invoice as it was, and what generate_invoice returns depends only on the tables as
\* loaded and on its arguments (so equal arguments give equal invoices).
C10_TablesAndInvoiceReadOnly ==
    /\ [](TablesAsBuilt)
    /\ [][last'.op \in Renderers => result' = result]_vars
    /\ [](Generated =>
            result = generate_invoice(built.clients, built.works, built.rate,
                                      last.args[1], last.args[2][1], last.args[2][2],
                                      last.args[3]))

\* C10's case: a renderer has run on a returned invoice that has line items
C10_Witness ==
    /\ last.op = "save_invoice_to_file" /\ last.file.after # None
    /\ GotInvoice /\ TheInvoice.works # <<>>
    /\ TablesAsBuilt

\* the sum, in thousandths, of the amounts the renderers show for the first n items
RECURSIVE ShownSum(_, _)
ShownSum(items, n) ==
    IF n = 0 THEN 0 ELSE ShownSum(items, n - 1) + Milli(WorkAmount(items[n]))

\* every line item's shown amount is a number, so both renderers can format it
AllShownNumeric(items) == \A i \in 1..Len(items) : IsNum(WorkAmount(items[i]))

\* C11: for every returned invoice, the per-row amounts the renderers resolve (first
\* candidate present and not null in the row, else 0) add up, rounded to 2 decimals, to
\* the invoice's subtotal, also when a row's first amount column is null and a later
\* candidate column holds a value.
C11_ShownAmountsAddUpToSubtotal ==
    (Generated /\ GotInvoice /\ AllShownNumeric(TheInvoice.works)) =>
        RoundDiv(ShownSum(TheInvoice.works, Len(TheInvoice.works)), 10) = TheInvoice.subtotal

\* the last save_invoice_to_file opened its file and rendering raised while
\* sys.stdout was the file
SaveRaisedWhileRedirected ==
    /\ last.op = "save_invoice_to_file"
    /\ last.out # <<>> /\ last.out[1].t = "error"
    /\ last.file.after # last.file.before

\* C12: sys.stdout after any save_invoice_to_file call that returns is the stream it
\* was before the call, so sys.stdout is always the display between calls and a
\* print_invoice writes all its lines to the display.
C12_StdoutRestored ==
    /\ [][last'.op = "save_invoice_to_file" => stdout' = stdout]_vars
    /\ [](stdout = "display")
    /\ [](last.op = "print_invoice" => last.out = print_invoice(Held).lines)

\* C12's case: rendering raised while sys.stdout was redirected to the file, the call
\* returned, and sys.stdout is the display again
C12_Witness == SaveRaisedWhileRedirected /\ stdout = "display"

====
